---- MODULE Spec2Model ----
(***************************************************************************)
(* Retrieval core of the RAG notebooks: fixed-window chunking              *)
(* (chunk_text), plain top-k retrieval (semantic_search /                  *)
(* retrieve_relevant_chunks), context-enriched retrieval                   *)
(* (context_enriched_search) and breakpoint detection                      *)
(* (compute_breakpoints).                                                  *)
(*                                                                         *)
(* Conventions.  Python lists are TLA+ sequences; Python indices are kept  *)
(* 0-based, so element i of a list s is s[i + 1].  A text is a sequence of *)
(* one-character strings.  A similarity is held in hundredths (SimScale):  *)
(* the embedding vectors of the model have integer norms whose products    *)
(* divide SimScale, so dot / (norm * norm) is an exact integer number of   *)
(* hundredths.  NaN stands for the float not-a-number.                     *)
(***************************************************************************)
EXTENDS Integers, Sequences, FiniteSets, TLC

\* ------------------------------------------------------------------ bounds
MaxLen == 5
MaxN == 3
MaxChunks == 3
MaxK == 4
MaxContext == 2
MaxSims == 4
MaxSentences == 5
MaxUnits == 4

\* --------------------------------------------------------------- constants
SimScale == 100
NaN == 1000

Chars == {"a", "b"}
Vectors == {<<1, 0>>, <<3, 4>>, <<-2, 0>>, <<0, 0>>}
Queries == {<<3, 4>>, <<1, 0>>}
SimValues == {0, 10, 20}
AdjacentSims == {10, 20}
Methods == {"percentile", "standard_deviation", "interquartile", "unknown_method"}
Thresholds == {0, 1, 2, 25, 50, 90, 100, 101}
ScoreScale == 10
Unavailable == <<"<", "unavailable", ">">>
Replies ==
    {<<"1", ".", "0">>, <<"0", ".", "5">>, <<"0", ".", "0">>,
     <<" ", "0", ".", "5", "\n">>, <<"0", ".", "7">>, <<"2">>, <<"-", "1">>,
     <<"n", "a", "n">>, <<>>,
     <<"m", "o", "s", "t", "l", "y", " ", "c", "o", "r", "r", "e", "c", "t">>}
SentenceSet == {<<"a", ".">>, <<>>}

SeqsUpTo(S, m) == UNION {[1..l -> S] : l \in 0..m}

Min(a, b) == IF a < b THEN a ELSE b
Max(a, b) == IF a > b THEN a ELSE b

\* ------------------------------------------------------- Python primitives
\* range(start, stop, step): the list of values, or a ValueError for step 0.
RECURSIVE RangeFrom(_, _, _)
RangeFrom(i, stop, step) ==
    IF (step > 0 /\ i < stop) \/ (step < 0 /\ i > stop)
    THEN <<i>> \o RangeFrom(i + step, stop, step)
    ELSE <<>>

\* Variant of range whose last admissible value is stop - 2.
range_StopEarly(start, stop, step) ==
    IF step = 0
    THEN [status |-> "ValueError", values |-> <<>>]
    ELSE [status |-> "ok", values |-> RangeFrom(start, stop - 1, step)]

range(start, stop, step) ==
    IF step = 0
    THEN [status |-> "ValueError", values |-> <<>>]
    ELSE [status |-> "ok", values |-> RangeFrom(start, stop, step)]

\* Variant of Slice that stops one element early.
Slice_ShortByOne(s, lo, hi) == SubSeq(s, lo + 1, Min(hi - 1, Len(s)))

\* s[lo:hi] for 0 <= lo: the slice is clipped at the end of s.
Slice(s, lo, hi) == SubSeq(s, lo + 1, Min(hi, Len(s)))

\* ---------------------------------------------------------------- chunk_text
\* Variant of chunk_text that advances by the whole chunk size.
chunk_text_StepN(t, size, ov) ==
    LET r == range(0, Len(t), IF size = ov THEN 0 ELSE size) IN
    IF r.status # "ok"
    THEN [status |-> r.status, chunks |-> <<>>]
    ELSE [status |-> "ok",
          chunks |-> [j \in 1..Len(r.values) |->
                        Slice(t, r.values[j], r.values[j] + size)]]

chunk_text(t, size, ov) ==
    LET r == range(0, Len(t), size - ov) IN
    IF r.status # "ok"
    THEN [status |-> r.status, chunks |-> <<>>]
    ELSE [status |-> "ok",
          chunks |-> [j \in 1..Len(r.values) |->
                        Slice(t, r.values[j], r.values[j] + size)]]

\* The one collaborator call of a retrieval: client.embeddings.create for
\* the query.
EmbedCall == <<<<"call", "embed">>>>

\* --------------------------------------------------------- cosine_similarity
dot(v1, v2) == v1[1] * v2[1] + v1[2] * v2[2]

\* np.linalg.norm: the vectors of the model have integer norms.
norm(v) == CHOOSE r \in 0..(dot(v, v)) : r * r = dot(v, v)

\* np.dot(vec1, vec2) / (norm(vec1) * norm(vec2)); numpy's float division
\* 0.0 / 0.0 gives nan (with a warning), it does not raise.
cosine_similarity(vec1, vec2) ==
    LET d == norm(vec1) * norm(vec2) IN
    IF d = 0 THEN NaN ELSE (dot(vec1, vec2) * SimScale) \div d

\* [cosine_similarity(query_embedding, emb) for emb in chunk_embeddings]
SimilarityList(q, embs) ==
    [j \in 1..Len(embs) |-> cosine_similarity(q, embs[j])]

\* ------------------------------------------------------------ plain top-k
Reverse(s) == [j \in 1..Len(s) |-> s[Len(s) + 1 - j]]

\* Sort order of numpy: ascending, nan after every number.
SortsBefore(x, y) == x # NaN /\ (y = NaN \/ x < y)

\* np.argsort(sims) with the default kind (an unstable sort): every
\* permutation of the indices 0..N-1 that puts the values in ascending
\* order is a possible result; equal values may come in either order.
argsort(sims) ==
    {p \in [1..Len(sims) -> 0..(Len(sims) - 1)] :
        /\ \A i, j \in 1..Len(sims) : i # j => p[i] # p[j]
        /\ \A i \in 1..(Len(sims) - 1) :
             ~SortsBefore(sims[p[i + 1] + 1], sims[p[i] + 1])}

\* Variant of LastK that computes the start as len - cnt without clamping
\* it: a negative start then counts from the end again.
LastK_NegativeStart(s, cnt) ==
    IF cnt = 0 THEN s
    ELSE IF cnt > Len(s)
         THEN SubSeq(s, Max(2 * Len(s) - cnt, 0) + 1, Len(s))
         ELSE SubSeq(s, Len(s) - cnt + 1, Len(s))

\* s[-cnt:] for cnt >= 0; s[-0:] is s[0:], the whole list.
LastK(s, cnt) ==
    IF cnt = 0 THEN s ELSE SubSeq(s, Max(Len(s) - cnt, 0) + 1, Len(s))

\* Variant of TopIndices that leaves the selection in ascending order.
TopIndices_NoReverse(sorted, cnt) == LastK(sorted, cnt)

\* np.argsort(similarities)[-k:][::-1], for one result `sorted` of argsort.
TopIndices(sorted, cnt) == Reverse(LastK(sorted, cnt))

\* [text_chunks[i] for i in top_indices]
Pick(tc, idx) == [j \in 1..Len(idx) |-> tc[idx[j] + 1]]

\* ------------------------------------------------- context_enriched_search
\* Stable insertion of item into a list sorted by descending score: item
\* goes after every element whose score is >= its own.
RECURSIVE InsertDesc(_, _)
InsertDesc(sorted, item) ==
    IF sorted = <<>> THEN <<item>>
    ELSE IF sorted[1][2] >= item[2]
         THEN <<sorted[1]>> \o InsertDesc(Tail(sorted), item)
         ELSE <<item>> \o sorted

RECURSIVE SortDescStable(_)
SortDescStable(scores) ==
    IF scores = <<>> THEN <<>>
    ELSE InsertDesc(SortDescStable(SubSeq(scores, 1, Len(scores) - 1)),
                    scores[Len(scores)])

\* similarity_scores.sort(key=lambda x: x[1], reverse=True): Python's sort
\* is stable, also with reverse=True.  With a nan among the keys the
\* comparisons are inconsistent and the order is unspecified.
SortedScores(scores) ==
    IF \E j \in 1..Len(scores) : scores[j][2] = NaN
    THEN {[j \in 1..Len(scores) |-> scores[p[j] + 1]] :
            p \in {q \in [1..Len(scores) -> 0..(Len(scores) - 1)] :
                     \A i, j \in 1..Len(scores) : i # j => q[i] # q[j]}}
    ELSE {SortDescStable(scores)}

\* Variant of ContextWindow that ends at the hit: no following neighbour.
ContextWindow_EndsAtHit(top_index, c, len) ==
    range(Max(0, top_index - c), Min(len, top_index + 1), 1)

\* Variant of ContextWindow whose end leaves out top_index + context_size.
ContextWindow_ExclusiveEnd(top_index, c, len) ==
    range(Max(0, top_index - c), Min(len, top_index + c), 1)

\* range(max(0, top_index - context_size),
\*       min(len(text_chunks), top_index + context_size + 1))
ContextWindow(top_index, c, len) ==
    range(Max(0, top_index - c), Min(len, top_index + c + 1), 1)

\* Variant of context_enriched_search that joins the windows around the
\* cnt best hits.
context_enriched_search_TopKWindows(q, tc, embs, cnt, c) ==
    LET sims == SimilarityList(q, embs)
        similarity_scores == [j \in 1..Len(embs) |-> <<j - 1, sims[j]>>]
    IN
    IF q = Unavailable
    THEN {[status |-> "EmbeddingUnavailable", indices |-> <<>>,
           chunks |-> <<>>, events |-> EmbedCall]}
    ELSE IF embs = <<>>
    THEN {[status |-> "IndexError", indices |-> <<>>, chunks |-> <<>>,
           events |-> EmbedCall]}
    ELSE {LET hits == {sorted[j][1] : j \in 1..Min(cnt, Len(sorted))}
              covered == {i \in 0..(Len(tc) - 1) :
                            \E h \in hits : h - c <= i /\ i <= h + c}
              idx == CHOOSE w \in [1..Cardinality(covered) -> covered] :
                        \A i, j \in 1..Cardinality(covered) : i < j => w[i] < w[j]
          IN [status |-> "ok", indices |-> idx,
              chunks |-> [j \in 1..Len(idx) |-> tc[idx[j] + 1]],
              events |-> EmbedCall]
          : sorted \in SortedScores(similarity_scores)}

\* context_enriched_search(query, text_chunks, embeddings, k, context_size):
\* the set of its possible outcomes, q being what the embedding collaborator
\* does on create_embeddings(query): the embedding it returns, or Unavailable
\* (the call raises and nothing catches it).  events lists the collaborator
\* calls made.  The parameter k (cnt) is not read by the code.
context_enriched_search(q, tc, embs, cnt, c) ==
    LET sims == SimilarityList(q, embs)
        similarity_scores == [j \in 1..Len(embs) |-> <<j - 1, sims[j]>>]
    IN
    IF q = Unavailable
    THEN {[status |-> "EmbeddingUnavailable", indices |-> <<>>,
           chunks |-> <<>>, events |-> EmbedCall]}
    ELSE IF embs = <<>>
    THEN \* similarity_scores[0] on an empty list
         {[status |-> "IndexError", indices |-> <<>>, chunks |-> <<>>,
           events |-> EmbedCall]}
    ELSE {LET top_index == sorted[1][1]
              w == ContextWindow(top_index, c, Len(tc))
          IN [status |-> "ok", indices |-> w.values,
              chunks |-> Pick(tc, w.values), events |-> EmbedCall]
          : sorted \in SortedScores(similarity_scores)}

\* semantic_search(query, text_chunks, chunk_embeddings, k) and
\* retrieve_relevant_chunks(query, text_chunks, chunk_embeddings, k): the
\* set of possible outcomes, one per result of argsort.  q is what the
\* embedding collaborator does on get_embedding(query) /
\* create_embeddings([query]): the embedding, or Unavailable (the call
\* raises and nothing catches it).
semantic_search(q, tc, embs, cnt) ==
    IF q = Unavailable
    THEN {[status |-> "EmbeddingUnavailable", indices |-> <<>>,
           chunks |-> <<>>, events |-> EmbedCall]}
    ELSE {[status |-> "ok", indices |-> TopIndices(sorted, cnt),
           chunks |-> Pick(tc, TopIndices(sorted, cnt)), events |-> EmbedCall]
          : sorted \in argsort(SimilarityList(q, embs))}

retrieve_relevant_chunks(q, tc, embs, cnt) == semantic_search(q, tc, embs, cnt)

\* ------------------------------------------------------ compute_breakpoints
RECURSIVE SumSeq(_)
SumSeq(s) == IF s = <<>> THEN 0 ELSE s[1] + SumSeq(Tail(s))

RECURSIVE InsertAsc(_, _)
InsertAsc(sorted, x) ==
    IF sorted = <<>> THEN <<x>>
    ELSE IF sorted[1] <= x
         THEN <<sorted[1]>> \o InsertAsc(Tail(sorted), x)
         ELSE <<x>> \o sorted

RECURSIVE SortAsc(_)
SortAsc(s) ==
    IF s = <<>> THEN <<>>
    ELSE InsertAsc(SortAsc(SubSeq(s, 1, Len(s) - 1)), s[Len(s)])

\* Scale of a percentile value relative to the values of the series: the
\* position q / 100 * (len - 1) has a fraction in hundredths.
PctScale == 100

\* Variant of percentile that takes q percent of the way from the minimum
\* to the maximum of the series.
percentile_OfRange(a, q) ==
    LET sorted == SortAsc(a)
    IN sorted[1] * PctScale + (sorted[Len(a)] - sorted[1]) * q

\* Variant of percentile that takes the lower of the two ranks and does not
\* interpolate.
percentile_LowerRank(a, q) ==
    LET sorted == SortAsc(a)
        pos == q * (Len(a) - 1)
        lower == pos \div PctScale
    IN sorted[lower + 1] * PctScale

\* np.percentile(a, q) for a non-empty series and 0 <= q <= 100, default
\* method 'linear': the value at position q / 100 * (len - 1) of the sorted
\* series, interpolated linearly between the two neighbouring ranks.  The
\* result is in units of 1 / PctScale of the series' unit.
percentile(a, q) ==
    LET sorted == SortAsc(a)
        pos == q * (Len(a) - 1)
        lower == pos \div PctScale
        gamma == pos % PctScale
        upper == Min(lower + 1, Len(a) - 1)
    IN sorted[lower + 1] * PctScale
         + (sorted[upper + 1] - sorted[lower + 1]) * gamma

\* Variant of BelowStdCutoff with the sample standard deviation (divisor
\* len - 1).
BelowStdCutoff_SampleStd(sim, sims, t) ==
    LET len == Len(sims)
        sum == SumSeq(sims)
        sumsq == SumSeq([j \in 1..len |-> sims[j] * sims[j]])
        lhs == len * sim - sum
        var == len * sumsq - sum * sum
    IN lhs < 0 /\ lhs * lhs * (len - 1) > t * t * var * len

\* sim < mean - threshold * std_dev, with np.mean and np.std (population
\* standard deviation, divisor len): multiplied by len, the test is
\*   len * sim - sum < - t * sqrt(len * sumsq - sum^2).
BelowStdCutoff(sim, sims, t) ==
    LET len == Len(sims)
        sum == SumSeq(sims)
        sumsq == SumSeq([j \in 1..len |-> sims[j] * sims[j]])
        lhs == len * sim - sum
        var == len * sumsq - sum * sum
    IN lhs < 0 /\ lhs * lhs > t * t * var

\* sim < q1 - 1.5 * (q3 - q1), doubled to stay in integers.
BelowIqrCutoff(sim, sims) ==
    LET q1 == percentile(sims, 25)
        q3 == percentile(sims, 75)
    IN 2 * sim * PctScale < 2 * q1 - 3 * (q3 - q1)

\* Variant of Below whose interquartile cutoff is q1 - threshold * (q3 - q1).
Below_IqrUsesThreshold(sim, sims, m, t) ==
    CASE m = "percentile" -> sim * PctScale < percentile(sims, t)
      [] m = "standard_deviation" -> BelowStdCutoff(sim, sims, t)
      [] m = "interquartile" ->
           sim * PctScale < percentile(sims, 25)
                              - t * (percentile(sims, 75) - percentile(sims, 25))

\* Variant of Below whose percentile comparison is not strict.
Below_NotStrict(sim, sims, m, t) ==
    CASE m = "percentile" -> sim * PctScale <= percentile(sims, t)
      [] m = "standard_deviation" -> BelowStdCutoff(sim, sims, t)
      [] m = "interquartile" -> BelowIqrCutoff(sim, sims)

\* sim < threshold_value, for the threshold_value of method m.
Below(sim, sims, m, t) ==
    CASE m = "percentile" -> sim * PctScale < percentile(sims, t)
      [] m = "standard_deviation" -> BelowStdCutoff(sim, sims, t)
      [] m = "interquartile" -> BelowIqrCutoff(sim, sims)

\* [i for i, sim in enumerate(similarities) if sim < threshold_value]
RECURSIVE Scan(_, _, _, _)
Scan(sims, m, t, i) ==
    IF i >= Len(sims) THEN <<>>
    ELSE (IF Below(sims[i + 1], sims, m, t) THEN <<i>> ELSE <<>>)
           \o Scan(sims, m, t, i + 1)

\* Variant of Breakpoints that starts the scan at index 1.
Breakpoints_SkipFirst(sims, m, t) == Scan(sims, m, t, 1)

\* Variant of Breakpoints that lists the indices from the end.
Breakpoints_Backwards(sims, m, t) == Reverse(Scan(sims, m, t, 0))

Breakpoints(sims, m, t) == Scan(sims, m, t, 0)

\* Variant of compute_breakpoints without the final else branch: a selector
\* that is not recognised is handled as 'percentile'.
compute_breakpoints_FallbackPercentile(sims, m, t) ==
    LET m2 == IF m \in {"standard_deviation", "interquartile"} THEN m ELSE "percentile"
    IN
    IF m2 = "percentile" /\ (t < 0 \/ t > 100)
    THEN {[status |-> "ValueError: Percentiles must be in the range [0, 100]",
           breakpoints |-> <<>>]}
    ELSE IF sims = <<>>
    THEN IF m2 = "standard_deviation"
         THEN {[status |-> "ok", breakpoints |-> <<>>]}
         ELSE {[status |-> "ok", breakpoints |-> <<>>],
               [status |-> "IndexError", breakpoints |-> <<>>]}
    ELSE {[status |-> "ok", breakpoints |-> Breakpoints(sims, m2, t)]}

\* compute_breakpoints(similarities, method, threshold): the set of its
\* possible outcomes.  On an empty series np.percentile raises IndexError or
\* returns nan depending on the numpy release; np.mean and np.std return
\* nan; nothing is below nan.
compute_breakpoints(sims, m, t) ==
    IF m \notin {"percentile", "standard_deviation", "interquartile"}
    THEN {[status |-> "ValueError: Invalid method", breakpoints |-> <<>>]}
    ELSE IF m = "percentile" /\ (t < 0 \/ t > 100)
    THEN {[status |-> "ValueError: Percentiles must be in the range [0, 100]",
           breakpoints |-> <<>>]}
    ELSE IF sims = <<>>
    THEN IF m = "standard_deviation"
         THEN {[status |-> "ok", breakpoints |-> <<>>]}
         ELSE {[status |-> "ok", breakpoints |-> <<>>],
               [status |-> "IndexError", breakpoints |-> <<>>]}
    ELSE {[status |-> "ok", breakpoints |-> Breakpoints(sims, m, t)]}

\* -------------------------------------------------------- split_into_chunks
\* ". ".join(parts): the strings of parts with ". " between neighbours.
RECURSIVE Join(_)
Join(parts) ==
    IF parts = <<>> THEN <<>>
    ELSE IF Len(parts) = 1 THEN parts[1]
    ELSE parts[1] \o <<".", " ">> \o Join(Tail(parts))

\* The indices selected by the slice [lo:hi] of a list of length len, for
\* 0 <= lo and 0 <= hi.
SliceIndices(lo, hi, len) == RangeFrom(lo, Min(hi, len), 1)

\* Variant of split_into_chunks that restarts at the breakpoint itself
\* (start = bp), so that the unit at a breakpoint is taken twice.
split_into_chunks_RestartAtBreakpoint(sents, bps) ==
    LET m == Len(bps)
        start(j) == IF j = 1 THEN 0 ELSE bps[j - 1]
        units == [j \in 1..(m + 1) |->
                    IF j <= m
                    THEN SliceIndices(start(j), bps[j] + 1, Len(sents))
                    ELSE SliceIndices(start(j), Len(sents), Len(sents))]
    IN [status |-> "ok",
        units |-> units,
        chunks |-> [j \in 1..(m + 1) |->
                      IF j <= m
                      THEN Join(Pick(sents, units[j])) \o <<".">>
                      ELSE Join(Pick(sents, units[j]))]]

\* Variant of split_into_chunks whose slices end before the breakpoint
\* (sentences[start:bp]), so that the unit at a breakpoint is dropped.
split_into_chunks_ExclusiveSlice(sents, bps) ==
    LET m == Len(bps)
        start(j) == IF j = 1 THEN 0 ELSE bps[j - 1] + 1
        units == [j \in 1..(m + 1) |->
                    IF j <= m
                    THEN SliceIndices(start(j), bps[j], Len(sents))
                    ELSE SliceIndices(start(j), Len(sents), Len(sents))]
    IN [status |-> "ok",
        units |-> units,
        chunks |-> [j \in 1..(m + 1) |->
                      IF j <= m
                      THEN Join(Pick(sents, units[j])) \o <<".">>
                      ELSE Join(Pick(sents, units[j]))]]

\* Variant of split_into_chunks that restarts two units after the
\* breakpoint (start = bp + 2).
split_into_chunks_SkipAfterBreakpoint(sents, bps) ==
    LET m == Len(bps)
        start(j) == IF j = 1 THEN 0 ELSE bps[j - 1] + 2
        units == [j \in 1..(m + 1) |->
                    IF j <= m
                    THEN SliceIndices(start(j), bps[j] + 1, Len(sents))
                    ELSE SliceIndices(start(j), Len(sents), Len(sents))]
    IN [status |-> "ok",
        units |-> units,
        chunks |-> [j \in 1..(m + 1) |->
                      IF j <= m
                      THEN Join(Pick(sents, units[j])) \o <<".">>
                      ELSE Join(Pick(sents, units[j]))]]

\* Variant of split_into_chunks that does not add "." to a chunk.
split_into_chunks_NoFullStop(sents, bps) ==
    LET m == Len(bps)
        start(j) == IF j = 1 THEN 0 ELSE bps[j - 1] + 1
        units == [j \in 1..(m + 1) |->
                    IF j <= m
                    THEN SliceIndices(start(j), bps[j] + 1, Len(sents))
                    ELSE SliceIndices(start(j), Len(sents), Len(sents))]
    IN [status |-> "ok",
        units |-> units,
        chunks |-> [j \in 1..(m + 1) |-> Join(Pick(sents, units[j]))]]

\* split_into_chunks(sentences, breakpoints).  The loop variable start is 0
\* before the first breakpoint and bp + 1 after each one, so chunk j is
\* built from sentences[start(j):bps[j] + 1] plus a final "." and the last
\* chunk from sentences[start(m + 1):].  units keeps, for each chunk, the
\* indices of the sentences its slice selects.
split_into_chunks(sents, bps) ==
    LET m == Len(bps)
        start(j) == IF j = 1 THEN 0 ELSE bps[j - 1] + 1
        units == [j \in 1..(m + 1) |->
                    IF j <= m
                    THEN SliceIndices(start(j), bps[j] + 1, Len(sents))
                    ELSE SliceIndices(start(j), Len(sents), Len(sents))]
    IN [status |-> "ok",
        units |-> units,
        chunks |-> [j \in 1..(m + 1) |->
                      IF j <= m
                      THEN Join(Pick(sents, units[j])) \o <<".">>
                      ELSE Join(Pick(sents, units[j]))]]

\* The strictly increasing lists of indices below len.
IncreasingLists(len) ==
    {CHOOSE w \in [1..Cardinality(S) -> S] :
        \A i, j \in 1..Cardinality(S) : i < j => w[i] < w[j]
     : S \in SUBSET (0..(len - 1))}

\* ------------------------------------------------- the semantic pipeline
\* str.split(". "): the pieces of t between the occurrences of ". ", found
\* from the left and not overlapping; cur is the piece being read.
RECURSIVE SplitFrom(_, _)
SplitFrom(t, cur) ==
    IF t = <<>> THEN <<cur>>
    ELSE IF Len(t) >= 2 /\ t[1] = "." /\ t[2] = " "
         THEN <<cur>> \o SplitFrom(SubSeq(t, 3, Len(t)), <<>>)
         ELSE SplitFrom(Tail(t), Append(cur, t[1]))

split(t) == SplitFrom(t, <<>>)

\* The texts given to the pipeline: up to MaxUnits sentences with ". "
\* between them.
Texts == {Join(s) : s \in SeqsUpTo(SentenceSet, MaxUnits) \ {<<>>}}

\* Variant of semantic_chunking that cuts one sentence after each breakpoint.
semantic_chunking_CutOneLater(t, sims, m, th) ==
    LET sents == split(t) IN
    {IF bp.status = "ok"
     THEN LET later == [j \in 1..Len(bp.breakpoints) |-> bp.breakpoints[j] + 1]
              out == split_into_chunks(sents, later)
          IN [status |-> "ok", sentences |-> sents, breakpoints |-> later,
              units |-> out.units, chunks |-> out.chunks]
     ELSE [status |-> bp.status, sentences |-> sents, breakpoints |-> <<>>,
           units |-> <<>>, chunks |-> <<>>]
     : bp \in compute_breakpoints(sims, m, th)}

\* The cells of the semantic chunking notebook in order:
\*   sentences = extracted_text.split(". ")
\*   similarities = [cosine_similarity(embeddings[i], embeddings[i + 1]) ...]
\*   breakpoints = compute_breakpoints(similarities, method, threshold)
\*   text_chunks = split_into_chunks(sentences, breakpoints)
\* sims is the series the sentence embeddings give, one entry per pair of
\* neighbours.  The set of possible outcomes; an error of compute_breakpoints
\* ends the pipeline.
semantic_chunking(t, sims, m, th) ==
    LET sents == split(t) IN
    {IF bp.status = "ok"
     THEN LET out == split_into_chunks(sents, bp.breakpoints)
          IN [status |-> "ok", sentences |-> sents,
              breakpoints |-> bp.breakpoints,
              units |-> out.units, chunks |-> out.chunks]
     ELSE [status |-> bp.status, sentences |-> sents, breakpoints |-> <<>>,
           units |-> <<>>, chunks |-> <<>>]
     : bp \in compute_breakpoints(sims, m, th)}

\* -------------------------------------------------------- evaluate_response
Whitespace == {" ", "\n", "\t"}

\* str.strip(): without the leading and the trailing whitespace.
RECURSIVE lstrip(_)
lstrip(str) ==
    IF str # <<>> /\ str[1] \in Whitespace THEN lstrip(Tail(str)) ELSE str

strip(str) == Reverse(lstrip(Reverse(lstrip(str))))

\* float(str) on the replies of the model: the number in units of
\* 1 / ScoreScale, nan for "nan", or a ValueError.
float(str) ==
    CASE str = <<"1", ".", "0">> -> [raised |-> "", value |-> 10]
      [] str = <<"0", ".", "5">> -> [raised |-> "", value |-> 5]
      [] str = <<"0", ".", "0">> -> [raised |-> "", value |-> 0]
      [] str = <<"0", ".", "7">> -> [raised |-> "", value |-> 7]
      [] str = <<"2">> -> [raised |-> "", value |-> 20]
      [] str = <<"-", "1">> -> [raised |-> "", value |-> -10]
      [] str = <<"n", "a", "n">> -> [raised |-> "", value |-> NaN]
      [] OTHER -> [raised |-> "ValueError", value |-> 0]

\* Variant of ParseScore whose except branch defaults to the full score.
ParseScore_DefaultFull(content, criterion) ==
    LET parsed == float(strip(content)) IN
    IF parsed.raised = "ValueError"
    THEN [score |-> 10,
          events |-> <<<<"parse", criterion>>, <<"warning", criterion>>>>]
    ELSE [score |-> parsed.value, events |-> <<<<"parse", criterion>>>>]

\* try: score = float(content.strip())
\* except ValueError: print("Warning: ..."); score = 0.0
ParseScore(content, criterion) ==
    LET parsed == float(strip(content)) IN
    IF parsed.raised = "ValueError"
    THEN [score |-> 0,
          events |-> <<<<"parse", criterion>>, <<"warning", criterion>>>>]
    ELSE [score |-> parsed.value, events |-> <<<<"parse", criterion>>>>]

\* Variant of evaluate_response with one try block around both parses: a
\* ValueError from either sets both scores to 0.0.
evaluate_response_SingleTry(f, r) ==
    IF f = Unavailable
    THEN [status |-> "CompletionUnavailable", scores |-> <<>>,
          events |-> <<<<"call", "faithfulness">>>>]
    ELSE IF r = Unavailable
    THEN [status |-> "CompletionUnavailable", scores |-> <<>>,
          events |-> <<<<"call", "faithfulness">>, <<"call", "relevancy">>>>]
    ELSE LET faithfulness == ParseScore(f, "faithfulness")
             relevancy == ParseScore(r, "relevancy")
             failed == Len(faithfulness.events) + Len(relevancy.events) > 2
         IN [status |-> "ok",
             scores |-> IF failed THEN <<0, 0>>
                        ELSE <<faithfulness.score, relevancy.score>>,
             events |-> <<<<"call", "faithfulness">>, <<"call", "relevancy">>>>
                          \o faithfulness.events \o relevancy.events]

\* Variant of evaluate_response that scores a criterion 0.0 when its
\* completion call fails.
evaluate_response_DefaultOnFailure(f, r) ==
    LET faithfulness == IF f = Unavailable
                        THEN [score |-> 0, events |-> <<>>]
                        ELSE ParseScore(f, "faithfulness")
        relevancy == IF r = Unavailable
                     THEN [score |-> 0, events |-> <<>>]
                     ELSE ParseScore(r, "relevancy")
    IN [status |-> "ok",
        scores |-> <<faithfulness.score, relevancy.score>>,
        events |-> <<<<"call", "faithfulness">>, <<"call", "relevancy">>>>
                     \o faithfulness.events \o relevancy.events]

\* evaluate_response(question, response, true_answer): f and r are what the
\* completion collaborator does on the faithfulness and on the relevancy
\* call, a reply text or Unavailable (the call raises).  events lists the
\* collaborator calls, the parses and the warnings in the order they happen.
evaluate_response(f, r) ==
    IF f = Unavailable
    THEN [status |-> "CompletionUnavailable", scores |-> <<>>,
          events |-> <<<<"call", "faithfulness">>>>]
    ELSE IF r = Unavailable
    THEN [status |-> "CompletionUnavailable", scores |-> <<>>,
          events |-> <<<<"call", "faithfulness">>, <<"call", "relevancy">>>>]
    ELSE LET faithfulness == ParseScore(f, "faithfulness")
             relevancy == ParseScore(r, "relevancy")
         IN [status |-> "ok",
             scores |-> <<faithfulness.score, relevancy.score>>,
             events |-> <<<<"call", "faithfulness">>, <<"call", "relevancy">>>>
                          \o faithfulness.events \o relevancy.events]

\* -------------------------------------------------------------------- state
VARIABLES op, status, text, n, overlap, chunks,
          query_embedding, chunk_embeddings, text_chunks, k, context_size,
          top_indices, result,
          similarities, method, threshold, breakpoints,
          sentences, semantic_chunks, chunk_units,
          faithfulness_reply, relevancy_reply, scores, events

vars == <<op, status, text, n, overlap, chunks,
          query_embedding, chunk_embeddings, text_chunks, k, context_size,
          top_indices, result,
          similarities, method, threshold, breakpoints,
          sentences, semantic_chunks, chunk_units,
          faithfulness_reply, relevancy_reply, scores, events>>

\* The i-th chunk of a corpus (i from 0), as a distinguishable value.
ChunkId(i) == <<"chunk", i>>
IndexOf(c) == c[2]
Corpus(len) == [j \in 1..len |-> ChunkId(j - 1)]

ResetChunk ==
    /\ text' = <<>>
    /\ n' = 0
    /\ overlap' = 0
    /\ chunks' = <<>>

ResetSearch ==
    /\ query_embedding' = <<0, 0>>
    /\ chunk_embeddings' = <<>>
    /\ text_chunks' = <<>>
    /\ k' = 0
    /\ context_size' = 0
    /\ top_indices' = <<>>
    /\ result' = <<>>

ResetBreak ==
    /\ similarities' = <<>>
    /\ method' = ""
    /\ threshold' = 0
    /\ breakpoints' = <<>>

ResetSplit ==
    /\ sentences' = <<>>
    /\ semantic_chunks' = <<>>
    /\ chunk_units' = <<>>

ResetScores ==
    /\ faithfulness_reply' = <<>>
    /\ relevancy_reply' = <<>>
    /\ scores' = <<>>

ResetEval ==
    /\ ResetScores
    /\ events' = <<>>

Init ==
    /\ op = "idle"
    /\ status = "ok"
    /\ text = <<>>
    /\ n = 0
    /\ overlap = 0
    /\ chunks = <<>>
    /\ query_embedding = <<0, 0>>
    /\ chunk_embeddings = <<>>
    /\ text_chunks = <<>>
    /\ k = 0
    /\ context_size = 0
    /\ top_indices = <<>>
    /\ result = <<>>
    /\ similarities = <<>>
    /\ method = ""
    /\ threshold = 0
    /\ breakpoints = <<>>
    /\ sentences = <<>>
    /\ semantic_chunks = <<>>
    /\ chunk_units = <<>>
    /\ faithfulness_reply = <<>>
    /\ relevancy_reply = <<>>
    /\ scores = <<>>
    /\ events = <<>>

ChunkText ==
    /\ op = "idle"
    /\ \E t \in SeqsUpTo(Chars, MaxLen), size \in 1..MaxN, ov \in 0..(MaxN + 1) :
         LET r == chunk_text(t, size, ov) IN
         /\ op' = "chunk_text"
         /\ text' = t
         /\ n' = size
         /\ overlap' = ov
         /\ status' = r.status
         /\ chunks' = r.chunks
    /\ ResetSearch
    /\ ResetBreak
    /\ ResetSplit
    /\ ResetEval

SemanticSearch ==
    /\ op = "idle"
    /\ \E q \in Queries \cup {Unavailable}, embs \in SeqsUpTo(Vectors, MaxChunks), cnt \in 0..MaxK :
         \E out \in semantic_search(q, Corpus(Len(embs)), embs, cnt) :
            /\ op' = "semantic_search"
            /\ status' = out.status
            /\ query_embedding' = q
            /\ chunk_embeddings' = embs
            /\ text_chunks' = Corpus(Len(embs))
            /\ k' = cnt
            /\ context_size' = 0
            /\ top_indices' = out.indices
            /\ result' = out.chunks
            /\ events' = out.events
    /\ ResetChunk
    /\ ResetBreak
    /\ ResetSplit
    /\ ResetScores

RetrieveRelevantChunks ==
    /\ op = "idle"
    /\ \E q \in Queries \cup {Unavailable}, embs \in SeqsUpTo(Vectors, MaxChunks), cnt \in 0..MaxK :
         \E out \in retrieve_relevant_chunks(q, Corpus(Len(embs)), embs, cnt) :
            /\ op' = "retrieve_relevant_chunks"
            /\ status' = out.status
            /\ query_embedding' = q
            /\ chunk_embeddings' = embs
            /\ text_chunks' = Corpus(Len(embs))
            /\ k' = cnt
            /\ context_size' = 0
            /\ top_indices' = out.indices
            /\ result' = out.chunks
            /\ events' = out.events
    /\ ResetChunk
    /\ ResetBreak
    /\ ResetSplit
    /\ ResetScores

ContextEnrichedSearch ==
    /\ op = "idle"
    /\ \E q \in Queries \cup {Unavailable}, embs \in SeqsUpTo(Vectors, MaxChunks),
          cnt \in 1..MaxK, c \in 0..MaxContext :
         \E out \in context_enriched_search(q, Corpus(Len(embs)), embs, cnt, c) :
            /\ op' = "context_enriched_search"
            /\ status' = out.status
            /\ query_embedding' = q
            /\ chunk_embeddings' = embs
            /\ text_chunks' = Corpus(Len(embs))
            /\ k' = cnt
            /\ context_size' = c
            /\ top_indices' = out.indices
            /\ result' = out.chunks
            /\ events' = out.events
    /\ ResetChunk
    /\ ResetBreak
    /\ ResetSplit
    /\ ResetScores

ComputeBreakpoints ==
    /\ op = "idle"
    /\ \E sims \in SeqsUpTo(SimValues, MaxSims), m \in Methods, t \in Thresholds :
         \E out \in compute_breakpoints(sims, m, t) :
            /\ op' = "compute_breakpoints"
            /\ status' = out.status
            /\ similarities' = sims
            /\ method' = m
            /\ threshold' = t
            /\ breakpoints' = out.breakpoints
    /\ ResetChunk
    /\ ResetSearch
    /\ ResetSplit
    /\ ResetEval

\* split_into_chunks called with a list of sentences and a strictly
\* increasing list of indices of that list.
SplitIntoChunks ==
    /\ op = "idle"
    /\ \E sents \in SeqsUpTo(SentenceSet, MaxSentences) :
         \E bps \in IncreasingLists(Len(sents)) :
            LET out == split_into_chunks(sents, bps) IN
            /\ op' = "split_into_chunks"
            /\ status' = out.status
            /\ sentences' = sents
            /\ breakpoints' = bps
            /\ semantic_chunks' = out.chunks
            /\ chunk_units' = out.units
    /\ similarities' = <<>>
    /\ method' = ""
    /\ threshold' = 0
    /\ ResetChunk
    /\ ResetSearch
    /\ ResetEval

SemanticChunking ==
    /\ op = "idle"
    /\ \E t \in Texts, m \in Methods, th \in Thresholds :
         \E sims \in [1..(Len(split(t)) - 1) -> AdjacentSims] :
            \E out \in semantic_chunking(t, sims, m, th) :
               /\ op' = "semantic_chunking"
               /\ status' = out.status
               /\ text' = t
               /\ sentences' = out.sentences
               /\ similarities' = sims
               /\ method' = m
               /\ threshold' = th
               /\ breakpoints' = out.breakpoints
               /\ semantic_chunks' = out.chunks
               /\ chunk_units' = out.units
    /\ n' = 0
    /\ overlap' = 0
    /\ chunks' = <<>>
    /\ ResetSearch
    /\ ResetEval

EvaluateResponse ==
    /\ op = "idle"
    /\ \E f \in Replies \cup {Unavailable}, r \in Replies \cup {Unavailable} :
         LET out == evaluate_response(f, r) IN
         /\ op' = "evaluate_response"
         /\ status' = out.status
         /\ faithfulness_reply' = f
         /\ relevancy_reply' = r
         /\ scores' = out.scores
         /\ events' = out.events
    /\ ResetChunk
    /\ ResetSearch
    /\ ResetBreak
    /\ ResetSplit

Return ==
    /\ op # "idle"
    /\ op' = "idle"
    /\ status' = "ok"
    /\ ResetChunk
    /\ ResetSearch
    /\ ResetBreak
    /\ ResetSplit
    /\ ResetEval

Next ==
    \/ ChunkText
    \/ SemanticSearch
    \/ RetrieveRelevantChunks
    \/ ContextEnrichedSearch
    \/ ComputeBreakpoints
    \/ SplitIntoChunks
    \/ SemanticChunking
    \/ EvaluateResponse
    \/ Return

Spec == Init /\ [][Next]_vars

\* ===================================================================
\* Properties of chunk_text
\* ===================================================================
CeilDiv(a, b) == (a + b - 1) \div b

\* C1: chunk_text fails with a configuration error whenever overlap >= n,
\* for every non-empty text (overlap = n and overlap > n alike); it never
\* returns a list of chunks for such a configuration.
C1_OverlapGeNFails ==
    (op = "chunk_text" /\ Len(text) > 0 /\ overlap >= n) => status # "ok"

\* C2: for 0 <= overlap < n and stride = n - overlap, the k-th chunk
\* (k from 0) is exactly the characters of text at positions k*stride up to
\* but excluding min(k*stride + n, len(text)); it has at most n characters
\* and its end never exceeds len(text).
C2_ChunkContents ==
    (op = "chunk_text" /\ 0 <= overlap /\ overlap < n) =>
        /\ status = "ok"
        /\ \A c \in 0..(Len(chunks) - 1) :
             LET stride == n - overlap
                 first == c * stride
                 last == Min(first + n, Len(text))
             IN /\ last <= Len(text)
                /\ Len(chunks[c + 1]) <= n
                /\ Len(chunks[c + 1]) = last - first
                /\ \A j \in 1..Len(chunks[c + 1]) :
                     chunks[c + 1][j] = text[first + j]

\* A call with a real overlap, at least three chunks and a clipped last one.
C2_Witness ==
    /\ op = "chunk_text" /\ status = "ok"
    /\ 0 < overlap /\ overlap < n
    /\ Len(chunks) >= 3
    /\ Len(chunks[Len(chunks)]) < n
    /\ Len(chunks[1]) = n

\* C3: for 0 <= overlap < n, chunk_text returns exactly
\* ceil(len(text) / (n - overlap)) chunks; the final partial window is kept
\* as a short chunk and an empty text yields zero chunks.
C3_ChunkCount ==
    (op = "chunk_text" /\ 0 <= overlap /\ overlap < n) =>
        /\ status = "ok"
        /\ Len(chunks) = CeilDiv(Len(text), n - overlap)
        /\ (Len(text) = 0 => chunks = <<>>)

\* A call whose text length is not a multiple of the stride, so that the
\* count is rounded up by the final short chunk.
C3_Witness ==
    /\ op = "chunk_text" /\ status = "ok"
    /\ overlap = 0 /\ n >= 2
    /\ Len(text) % n # 0
    /\ Len(chunks) >= 3
    /\ Len(chunks[Len(chunks)]) = Len(text) % n

\* ===================================================================
\* Properties of the retrievers
\* ===================================================================
TopKOps == {"semantic_search", "retrieve_relevant_chunks"}

NumChunks == Len(chunk_embeddings)

\* Similarity of chunk i (from 0) to the query of the current call.
Sim(i) == cosine_similarity(query_embedding, chunk_embeddings[i + 1])

\* Every similarity of the current call is a number (no zero-norm vector).
SimsDefined ==
    /\ query_embedding # Unavailable
    /\ \A i \in 0..(NumChunks - 1) : Sim(i) # NaN

\* Indices of the chunks in the returned list, read off the chunks.
Returned == [j \in 1..Len(result) |-> IndexOf(result[j])]

ReturnedSet == {Returned[j] : j \in 1..Len(result)}

Distinct(s) == \A i, j \in 1..Len(s) : i # j => s[i] # s[j]

Descending == \A j \in 1..(Len(result) - 1) : Sim(Returned[j]) >= Sim(Returned[j + 1])

\* C4: for N chunk vectors (with defined similarities) and 1 <= k <= N,
\* plain top-k retrieval returns exactly k chunks, each a distinct chunk
\* index, every returned chunk at least as similar to the query as every
\* chunk not returned, in non-increasing similarity order.
C4_TopK ==
    (op \in TopKOps /\ SimsDefined /\ 1 <= k /\ k <= NumChunks) =>
        /\ status = "ok"
        /\ Len(result) = k
        /\ Distinct(Returned)
        /\ ReturnedSet \subseteq 0..(NumChunks - 1)
        /\ \A i \in ReturnedSet : \A j \in (0..(NumChunks - 1)) \ ReturnedSet :
             Sim(i) >= Sim(j)
        /\ Descending

\* A proper selection (k < N) whose rank order differs from index order.
C4_Witness ==
    /\ op \in TopKOps /\ SimsDefined /\ status = "ok"
    /\ NumChunks >= 3 /\ k = 2
    /\ Sim(Returned[1]) > Sim(Returned[2])
    /\ Returned[1] > Returned[2]
    /\ \E j \in (0..(NumChunks - 1)) \ ReturnedSet : Sim(j) < Sim(Returned[2])

\* C5: ties are broken by preferring the lower original index: of two
\* chunks with equal similarity the lower-indexed one is ranked first, and
\* when only one of them fits within the k results it is the lower-indexed
\* one that is returned.
C5_TiesPreferLowerIndex ==
    (op \in TopKOps /\ SimsDefined /\ k >= 1) =>
        /\ \A a, b \in 1..Len(result) :
             (a < b /\ Sim(Returned[a]) = Sim(Returned[b])) =>
                 Returned[a] < Returned[b]
        /\ \A i, j \in 0..(NumChunks - 1) :
             (i < j /\ Sim(i) = Sim(j) /\ j \in ReturnedSet) => i \in ReturnedSet

\* C6: when k exceeds the number N of chunks, plain top-k retrieval raises
\* no error and returns all N chunks, each exactly once, in
\* descending-similarity order.
C6_KExceedsCount ==
    (op \in TopKOps /\ SimsDefined /\ k > NumChunks) =>
        /\ status = "ok"
        /\ Len(result) = NumChunks
        /\ ReturnedSet = 0..(NumChunks - 1)
        /\ Distinct(Returned)
        /\ Descending

\* k beyond the count, several chunks, returned out of index order.
C6_Witness ==
    /\ op \in TopKOps /\ SimsDefined /\ status = "ok"
    /\ NumChunks >= 2 /\ k > NumChunks + 1
    /\ Len(result) = NumChunks
    /\ Sim(Returned[1]) > Sim(Returned[Len(result)])
    /\ Returned[1] = NumChunks - 1

\* The best hit: the first index that holds the highest similarity.
BestIndex ==
    CHOOSE t \in 0..(NumChunks - 1) :
        /\ \A j \in 0..(NumChunks - 1) : Sim(t) >= Sim(j)
        /\ \A j \in 0..(t - 1) : Sim(j) < Sim(t)

\* C7: for N >= 1 chunks (with defined similarities) and context_size
\* c >= 0, context_enriched_search returns exactly the chunks with indices
\* max(0, top - c) through min(N - 1, top + c) inclusive, in ascending index
\* order, top being the index of the chunk with the highest similarity (the
\* first such index when several chunks hold it).
C7_ContextWindow ==
    (op = "context_enriched_search" /\ NumChunks >= 1 /\ SimsDefined) =>
        LET lo == Max(0, BestIndex - context_size)
            hi == Min(NumChunks - 1, BestIndex + context_size)
        IN /\ status = "ok"
           /\ Len(result) = hi - lo + 1
           /\ \A j \in 1..Len(result) : result[j] = text_chunks[lo + j]
           /\ \A j \in 1..Len(result) : Returned[j] = lo + j - 1

\* The best hit is the last chunk and is not the only one: the window is
\* clamped above and reaches back below the hit.
C7_Witness ==
    /\ op = "context_enriched_search" /\ SimsDefined /\ status = "ok"
    /\ NumChunks >= 3 /\ context_size >= 1
    /\ BestIndex = NumChunks - 1
    /\ Len(result) = context_size + 1
    /\ Returned[Len(result)] = NumChunks - 1

SeriesIndices == 0..(Len(similarities) - 1)

\* The value of rank r (from 0) in the ascending order of the series,
\* found by counting: fewer than r + 1 values are below it and at least
\* r + 1 values are at or below it.
RankValue(r) ==
    CHOOSE v \in {similarities[j] : j \in 1..Len(similarities)} :
        /\ Cardinality({j \in 1..Len(similarities) : similarities[j] < v}) <= r
        /\ Cardinality({j \in 1..Len(similarities) : similarities[j] <= v}) > r

\* The threshold-th percentile, times 100 * 100: the ranks next to position
\* threshold / 100 * (len - 1), weighted by the distance to the other one.
InterpolatedPercentile ==
    LET pos == threshold * (Len(similarities) - 1)
        below == pos \div 100
        frac == pos % 100
        above == IF frac = 0 THEN below ELSE below + 1
    IN (100 - frac) * RankValue(below) + frac * RankValue(above)

BreakpointSet == {breakpoints[j] : j \in 1..Len(breakpoints)}

\* C9: with method 'percentile' and 0 <= threshold <= 100,
\* compute_breakpoints returns exactly the indices i with similarities[i]
\* strictly less than the threshold-th percentile of the series (linear
\* interpolation between adjacent ranks of the sorted series); an index
\* whose similarity equals the percentile value is not a breakpoint.
C9_PercentileBreakpoints ==
    (/\ op = "compute_breakpoints" /\ method = "percentile"
     /\ 0 <= threshold /\ threshold <= 100 /\ similarities # <<>>) =>
        /\ status = "ok"
        /\ BreakpointSet =
             {i \in SeriesIndices : 100 * similarities[i + 1] < InterpolatedPercentile}
        /\ \A i \in SeriesIndices :
             100 * similarities[i + 1] = InterpolatedPercentile => i \notin BreakpointSet

\* The percentile falls on a value of the series: the indices holding it
\* are left out while lower ones are marked.
C9_Witness ==
    /\ op = "compute_breakpoints" /\ method = "percentile" /\ status = "ok"
    /\ 0 < threshold /\ threshold < 100
    /\ Len(similarities) >= 3
    /\ breakpoints # <<>>
    /\ \E i \in SeriesIndices :
         /\ 100 * similarities[i + 1] = InterpolatedPercentile
         /\ i \notin BreakpointSet
         /\ \E j \in BreakpointSet : j > i

\* C10: for every similarity series, every recognised method and every
\* threshold, the list returned by compute_breakpoints is strictly
\* increasing and each index lies in [0, len(similarities) - 1].
C10_BreakpointsAscending ==
    (op = "compute_breakpoints" /\ status = "ok") =>
        /\ \A j \in 1..(Len(breakpoints) - 1) : breakpoints[j] < breakpoints[j + 1]
        /\ \A j \in 1..Len(breakpoints) : breakpoints[j] \in SeriesIndices

\* A returned list of several indices with a gap, reaching the last index.
C10_Witness ==
    /\ op = "compute_breakpoints" /\ status = "ok"
    /\ method \in {"percentile", "standard_deviation", "interquartile"}
    /\ Len(breakpoints) >= 2
    /\ breakpoints[Len(breakpoints)] = Len(similarities) - 1
    /\ Len(breakpoints) < Len(similarities)

\* The deviation of the similarity at index i from the mean, times the
\* length of the series.
Deviation(i) == Len(similarities) * similarities[i + 1] - SumSeq(similarities)

SumSquaredDeviations ==
    SumSeq([j \in 1..Len(similarities) |-> Deviation(j - 1) * Deviation(j - 1)])

\* similarities[i] < mean - threshold * sigma for threshold >= 0, sigma
\* being the population standard deviation: sigma^2 is the sum of the
\* squared deviations from the mean divided by the length, so the test is
\* deviation < 0 and deviation^2 > threshold^2 * sigma^2.
BelowMeanMinusSigmas(i) ==
    /\ Deviation(i) < 0
    /\ Len(similarities) * Deviation(i) * Deviation(i)
         > threshold * threshold * SumSquaredDeviations

\* C11: with method 'standard_deviation', compute_breakpoints returns
\* exactly the indices i with similarities[i] < mean - threshold * sigma,
\* mean being the arithmetic mean and sigma the population standard
\* deviation (divisor = number of similarities) of the series, threshold a
\* multiplier.
C11_StdDevBreakpoints ==
    (op = "compute_breakpoints" /\ method = "standard_deviation") =>
        /\ status = "ok"
        /\ BreakpointSet = {i \in SeriesIndices : BelowMeanMinusSigmas(i)}

\* A multiplier of at least 1 that marks some index and spares another one
\* that lies below the mean.
C11_Witness ==
    /\ op = "compute_breakpoints" /\ method = "standard_deviation"
    /\ status = "ok" /\ threshold >= 1
    /\ breakpoints # <<>>
    /\ \E i \in SeriesIndices : Deviation(i) < 0 /\ i \notin BreakpointSet

\* The p-th percentile of the series, times 100, from the ranks found by
\* counting.
PercentileByRank(p) ==
    LET pos == p * (Len(similarities) - 1)
        below == pos \div 100
        frac == pos % 100
        above == IF frac = 0 THEN below ELSE below + 1
    IN (100 - frac) * RankValue(below) + frac * RankValue(above)

\* C12: with method 'interquartile', compute_breakpoints returns exactly
\* the indices i with similarities[i] < Q1 - 1.5 * (Q3 - Q1), Q1 and Q3 the
\* 25th and 75th percentiles; the threshold argument is unused, so every
\* other threshold gives the same result for the same series.
C12_InterquartileBreakpoints ==
    (/\ op = "compute_breakpoints" /\ method = "interquartile"
     /\ similarities # <<>>) =>
        LET q1 == PercentileByRank(25)
            q3 == PercentileByRank(75)
        IN /\ status = "ok"
           /\ BreakpointSet =
                {i \in SeriesIndices :
                    2 * 100 * similarities[i + 1] < 2 * q1 - 3 * (q3 - q1)}
           /\ \A t2 \in Thresholds :
                compute_breakpoints(similarities, method, t2)
                  = {[status |-> status, breakpoints |-> breakpoints]}

\* A series with an outlier below the cutoff, called with a threshold that
\* would move the cutoff if it were used as the multiplier.
C12_Witness ==
    /\ op = "compute_breakpoints" /\ method = "interquartile" /\ status = "ok"
    /\ breakpoints # <<>>
    /\ threshold > 2
    /\ PercentileByRank(75) > PercentileByRank(25)

\* C13: compute_breakpoints fails with an invalid-method error for every
\* method selector that is not one of 'percentile', 'standard_deviation' or
\* 'interquartile', whatever the series and threshold, and returns no
\* breakpoint list.
C13_InvalidMethod ==
    (/\ op = "compute_breakpoints"
     /\ method \notin {"percentile", "standard_deviation", "interquartile"}) =>
        /\ status = "ValueError: Invalid method"
        /\ breakpoints = <<>>

\* An unrecognised selector on a series and threshold for which the
\* percentile method would mark an index.
C13_Witness ==
    /\ op = "compute_breakpoints"
    /\ method \notin {"percentile", "standard_deviation", "interquartile"}
    /\ status # "ok"
    /\ threshold = 50
    /\ \E i, j \in SeriesIndices : similarities[i + 1] < similarities[j + 1]

\* C14: with method 'percentile' and threshold = 0, compute_breakpoints
\* marks no boundary for any non-empty series: the cutoff is the minimum of
\* the series, so the result is the empty list.
C14_PercentileZero ==
    (/\ op = "compute_breakpoints" /\ method = "percentile"
     /\ threshold = 0 /\ similarities # <<>>) =>
        /\ status = "ok"
        /\ breakpoints = <<>>

\* Threshold 0 on a series of several values that are not all equal.
C14_Witness ==
    /\ op = "compute_breakpoints" /\ method = "percentile" /\ status = "ok"
    /\ threshold = 0
    /\ breakpoints = <<>>
    /\ \E i, j \in SeriesIndices : similarities[i + 1] < similarities[j + 1]

\* C15: with method 'percentile' and threshold = 100, compute_breakpoints
\* returns exactly the indices whose similarity is strictly less than the
\* maximum of the series; no index holding the maximum is marked.
C15_PercentileHundred ==
    (/\ op = "compute_breakpoints" /\ method = "percentile"
     /\ threshold = 100 /\ similarities # <<>>) =>
        /\ status = "ok"
        /\ BreakpointSet =
             {i \in SeriesIndices :
                \E j \in SeriesIndices : similarities[i + 1] < similarities[j + 1]}
        /\ \A i \in SeriesIndices :
             (\A j \in SeriesIndices : similarities[j + 1] <= similarities[i + 1])
                => i \notin BreakpointSet

\* Threshold 100 where index 0 is below the maximum and the maximum occurs
\* twice.
C15_Witness ==
    /\ op = "compute_breakpoints" /\ method = "percentile" /\ status = "ok"
    /\ threshold = 100
    /\ 0 \in BreakpointSet
    /\ Cardinality(SeriesIndices \ BreakpointSet) >= 2

\* ===================================================================
\* Properties of split_into_chunks
\* ===================================================================
NumUnits == Len(sentences)

NumBreaks == Len(breakpoints)

\* The indices lo, lo + 1, ..., hi in order (none when hi < lo).
Interval(lo, hi) == [j \in 1..(hi - lo + 1) |-> lo + j - 1]

\* b_j of the breakpoint list, with b_0 = -1.
Boundary(j) == IF j = 0 THEN -1 ELSE breakpoints[j]

BreaksWithin(hi) == \A j \in 1..NumBreaks : breakpoints[j] <= hi

RECURSIVE Flatten(_)
Flatten(lists) ==
    IF lists = <<>> THEN <<>> ELSE lists[1] \o Flatten(Tail(lists))

\* Number of characters of the units idx joined by ". ".
JoinedLength(idx) ==
    SumSeq([j \in 1..Len(idx) |-> Len(sentences[idx[j] + 1])])
      + (IF Len(idx) = 0 THEN 0 ELSE 2 * (Len(idx) - 1))

\* C16: for N units and a strictly increasing breakpoint list
\* b_1 < ... < b_m, split_into_chunks returns exactly m + 1 chunks: chunk j
\* (1 <= j <= m) covers units b_(j-1) + 1 through b_j inclusive (b_0 = -1)
\* and the final chunk covers units b_m + 1 through N - 1; with an empty
\* breakpoint list it returns one chunk holding all N units in order.
C16_ChunkRanges ==
    (op = "split_into_chunks") =>
        /\ status = "ok"
        /\ Len(semantic_chunks) = NumBreaks + 1
        /\ Len(chunk_units) = NumBreaks + 1
        /\ \A j \in 1..NumBreaks :
             /\ chunk_units[j] = Interval(Boundary(j - 1) + 1, Boundary(j))
             /\ Len(semantic_chunks[j]) = JoinedLength(chunk_units[j]) + 1
        /\ chunk_units[NumBreaks + 1]
             = Interval(Boundary(NumBreaks) + 1, NumUnits - 1)
        /\ Len(semantic_chunks[NumBreaks + 1])
             = JoinedLength(chunk_units[NumBreaks + 1])
        /\ (breakpoints = <<>> =>
               /\ chunk_units = <<Interval(0, NumUnits - 1)>>
               /\ semantic_chunks = <<Join(sentences)>>)

\* Breakpoints [1, 3] on 5 units: units [0, 1], [2, 3], [4].
C16_Witness ==
    /\ op = "split_into_chunks" /\ status = "ok"
    /\ NumUnits = 5
    /\ breakpoints = <<1, 3>>
    /\ chunk_units = <<<<0, 1>>, <<2, 3>>, <<4>>>>
    /\ \A j \in 1..NumUnits : sentences[j] # <<>>

\* C17: for every unit sequence and every strictly increasing breakpoint
\* list with indices in [0, N - 2], the chunks partition the unit sequence
\* exactly: every unit appears in exactly one chunk, in the original order,
\* and the union of the chunks is the whole sequence.
C17_ExactPartition ==
    (op = "split_into_chunks" /\ BreaksWithin(NumUnits - 2)) =>
        /\ Flatten(chunk_units) = Interval(0, NumUnits - 1)
        /\ \A u \in 0..(NumUnits - 1) :
             Cardinality({j \in 1..Len(chunk_units) :
                            \E i \in 1..Len(chunk_units[j]) : chunk_units[j][i] = u}) = 1

\* Several breakpoints, one of them at the first unit, none after N - 2.
C17_Witness ==
    /\ op = "split_into_chunks" /\ status = "ok"
    /\ NumUnits >= 4
    /\ NumBreaks >= 2
    /\ breakpoints[1] = 0
    /\ BreaksWithin(NumUnits - 2)
    /\ Flatten(chunk_units) = Interval(0, NumUnits - 1)

\* C18, as stated: when the breakpoint list contains the last valid index
\* of the similarity series (len(similarities) - 1 = N - 2 for N units),
\* split_into_chunks emits an empty trailing chunk: the final chunk covers
\* no unit and is the empty string.
C18_EmptyTrailingChunk ==
    (/\ op = "split_into_chunks" /\ NumUnits >= 2
     /\ \E j \in 1..NumBreaks : breakpoints[j] = NumUnits - 2) =>
        /\ chunk_units[Len(chunk_units)] = <<>>
        /\ semantic_chunks[Len(semantic_chunks)] = <<>>

\* C18, amended: when the breakpoint list, made of indices of the
\* similarity series, contains the last one (N - 2), the final chunk is not
\* an empty trailing chunk: it covers exactly the last unit (index N - 1)
\* and its text is that unit's text.
C18_TrailingChunkIsLastUnit ==
    (/\ op = "split_into_chunks" /\ NumUnits >= 2
     /\ BreaksWithin(NumUnits - 2)
     /\ \E j \in 1..NumBreaks : breakpoints[j] = NumUnits - 2) =>
        /\ chunk_units[Len(chunk_units)] = <<NumUnits - 1>>
        /\ semantic_chunks[Len(semantic_chunks)] = sentences[NumUnits]

\* A breakpoint at N - 2 after an earlier one; the last unit has text.
C18_Witness ==
    /\ op = "split_into_chunks" /\ status = "ok"
    /\ NumUnits >= 3
    /\ NumBreaks >= 2
    /\ breakpoints[NumBreaks] = NumUnits - 2
    /\ sentences[NumUnits] # <<>>
    /\ semantic_chunks[Len(semantic_chunks)] # <<>>

\* ===================================================================
\* Properties of cosine_similarity
\* ===================================================================
SearchOps == TopKOps \cup {"context_enriched_search"}

ZeroNorm(v) == v = <<0, 0>>

\* C19: cosine_similarity fails with a degenerate-vector error whenever
\* either argument has zero norm and never returns a value for such a
\* pair, so a retriever that compares a zero-norm query or chunk vector
\* fails too.
C19_ZeroNormFails ==
    (/\ op \in SearchOps /\ NumChunks >= 1
     /\ (ZeroNorm(query_embedding)
           \/ \E j \in 1..NumChunks : ZeroNorm(chunk_embeddings[j]))) =>
        status # "ok"

\* ===================================================================
\* Properties of evaluate_response
\* ===================================================================
\* Replies that are not the text of a number.
NonNumericReplies ==
    {<<"m", "o", "s", "t", "l", "y", " ", "c", "o", "r", "r", "e", "c", "t">>,
     <<>>}

BothRepliesArrived ==
    faithfulness_reply # Unavailable /\ relevancy_reply # Unavailable

Logged(kind, criterion) ==
    \E j \in 1..Len(events) : events[j] = <<kind, criterion>>

\* C20: when the judge's reply for a criterion cannot be parsed as a
\* number, evaluate_response does not raise: it reports the default score
\* 0.0 for that criterion, surfaces a warning, and still returns a
\* (faithfulness, relevancy) pair.
C20_ParseFailureDefaultsToZero ==
    (op = "evaluate_response" /\ BothRepliesArrived) =>
        /\ (faithfulness_reply \in NonNumericReplies =>
               /\ status = "ok" /\ Len(scores) = 2
               /\ scores[1] = 0
               /\ Logged("warning", "faithfulness"))
        /\ (relevancy_reply \in NonNumericReplies =>
               /\ status = "ok" /\ Len(scores) = 2
               /\ scores[2] = 0
               /\ Logged("warning", "relevancy"))

\* The faithfulness reply is "mostly correct" and the relevancy reply is a
\* number other than 0.
C20_Witness ==
    /\ op = "evaluate_response" /\ status = "ok"
    /\ Len(faithfulness_reply) > 3
    /\ faithfulness_reply \in NonNumericReplies
    /\ scores[1] = 0
    /\ scores[2] = 5
    /\ Logged("warning", "faithfulness")
    /\ ~Logged("warning", "relevancy")

\* The three bands SCORE_NONE, SCORE_PARTIAL and SCORE_FULL, in units of
\* 1 / ScoreScale.
Bands == {0, 5, 10}

\* C21: every score returned by evaluate_response is one of the bands 0.0,
\* 0.5 and 1.0, whatever the judge replies: a reply that parses as a number
\* outside the set is never returned as a score.
C21_ScoresAreBands ==
    (op = "evaluate_response" /\ status = "ok") =>
        \A j \in 1..Len(scores) : scores[j] \in Bands

\* ===================================================================
\* Collaborator failures
\* ===================================================================
\* The collaborator call that failed in the operation of the current state.
FailedCall ==
    IF op \in SearchOps THEN <<"call", "embed">>
    ELSE IF faithfulness_reply = Unavailable THEN <<"call", "faithfulness">>
    ELSE <<"call", "relevancy">>

CollaboratorFailed ==
    \/ op \in SearchOps /\ query_embedding = Unavailable
    \/ op = "evaluate_response" /\ ~BothRepliesArrived

\* C22: a failure of the embed or complete collaborator during
\* semantic_search, retrieve_relevant_chunks, context_enriched_search or
\* evaluate_response propagates to the caller: the operation ends with the
\* collaborator's failure and no result, the failed call is issued once (no
\* retry) and it is the last collaborator call of the operation.
C22_CollaboratorFailurePropagates ==
    CollaboratorFailed =>
        /\ status = IF op \in SearchOps THEN "EmbeddingUnavailable"
                    ELSE "CompletionUnavailable"
        /\ result = <<>> /\ top_indices = <<>> /\ scores = <<>>
        /\ events # <<>>
        /\ events[Len(events)] = FailedCall
        /\ Distinct(events)
        /\ \A j \in 1..Len(events) : events[j][1] = "call"

\* The relevancy call fails after the faithfulness call returned a number.
C22_Witness ==
    /\ op = "evaluate_response"
    /\ faithfulness_reply = <<"0", ".", "5">>
    /\ relevancy_reply = Unavailable
    /\ status = "CompletionUnavailable"
    /\ events = <<<<"call", "faithfulness">>, <<"call", "relevancy">>>>

\* ===================================================================
\* Further properties of retrieval
\* ===================================================================
\* C23: for every k >= 0 and N chunks, plain top-k retrieval returns
\* exactly min(k, N) chunks; in particular k = 0 returns the empty list.
\* (Stated for defined similarities.)
C23_ReturnsMinKN ==
    (op \in TopKOps /\ SimsDefined) =>
        /\ status = "ok"
        /\ Len(result) = Min(k, NumChunks)

\* C24: for N >= 1 chunks (with defined similarities) and context_size
\* c >= 0, the indices of the chunks returned by context_enriched_search
\* are consecutive and strictly increasing, none repeated, they include the
\* best-matching index top, and they number at most 2c + 1, exactly 2c + 1
\* when c <= top <= N - 1 - c.
C24_WindowShape ==
    (op = "context_enriched_search" /\ NumChunks >= 1 /\ SimsDefined) =>
        /\ status = "ok"
        /\ \A j \in 1..(Len(result) - 1) : Returned[j + 1] = Returned[j] + 1
        /\ Distinct(Returned)
        /\ BestIndex \in ReturnedSet
        /\ Len(result) <= 2 * context_size + 1
        /\ (context_size <= BestIndex /\ BestIndex <= NumChunks - 1 - context_size)
              => Len(result) = 2 * context_size + 1

\* A full window of three chunks around a best hit in the middle.
C24_Witness ==
    /\ op = "context_enriched_search" /\ SimsDefined /\ status = "ok"
    /\ context_size = 1 /\ BestIndex = 1
    /\ Returned = <<0, 1, 2>>

\* C27: the two retrievers agree on the single best hit: for the same
\* query vector, chunks and chunk vectors (with defined similarities),
\* context_enriched_search with context_size = 0 returns the one-element
\* list holding the same chunk index as plain top-k retrieval with k = 1,
\* also when several chunks tie for the highest similarity.
C27_RetrieversAgreeOnBestHit ==
    (/\ op = "context_enriched_search" /\ context_size = 0
     /\ NumChunks >= 1 /\ SimsDefined) =>
        /\ Len(top_indices) = 1
        /\ \A plain \in semantic_search(query_embedding, text_chunks,
                                        chunk_embeddings, 1)
                        \cup retrieve_relevant_chunks(query_embedding, text_chunks,
                                                      chunk_embeddings, 1) :
             plain.indices = top_indices /\ plain.chunks = result

\* ===================================================================
\* Properties of the semantic pipeline
\* ===================================================================
\* C25: in the semantic pipeline, where N >= 2 sentences give N - 1
\* adjacent similarities and the breakpoints are those returned by
\* compute_breakpoints on that series, every chunk returned by
\* split_into_chunks covers at least one sentence: no chunk, the final one
\* included, is built from an empty range of sentences.
C25_NoEmptyChunkRange ==
    (op = "semantic_chunking" /\ NumUnits >= 2 /\ status = "ok") =>
        /\ Len(similarities) = NumUnits - 1
        /\ Len(semantic_chunks) = Len(chunk_units)
        /\ \A j \in 1..Len(chunk_units) : Len(chunk_units[j]) >= 1

\* The last similarity is a breakpoint, after an earlier one: the final
\* chunk is the last sentence alone.
C25_Witness ==
    /\ op = "semantic_chunking" /\ status = "ok"
    /\ NumUnits >= 4 /\ NumBreaks >= 2
    /\ breakpoints[NumBreaks] = Len(similarities) - 1
    /\ chunk_units[Len(chunk_units)] = <<NumUnits - 1>>

\* The largest value of the series.
MaxSimilarity ==
    CHOOSE v \in {similarities[j] : j \in 1..Len(similarities)} :
        \A j \in 1..Len(similarities) : similarities[j] <= v

\* C26: with method 'percentile' and threshold p in [0, 100] on a series of
\* M >= 1 similarities, compute_breakpoints returns at most
\* ceil(p * (M - 1) / 100) indices, an index holding the maximum similarity
\* is never a breakpoint, and the semantic pipeline yields at most
\* ceil(p * (M - 1) / 100) + 1 chunks.
C26_PercentileCountBound ==
    (/\ op \in {"compute_breakpoints", "semantic_chunking"}
     /\ method = "percentile" /\ threshold \in 0..100
     /\ Len(similarities) >= 1) =>
        LET bound == CeilDiv(threshold * (Len(similarities) - 1), 100) IN
        /\ status = "ok"
        /\ Len(breakpoints) <= bound
        /\ \A i \in BreakpointSet : similarities[i + 1] < MaxSimilarity
        /\ op = "semantic_chunking" => Len(semantic_chunks) <= bound + 1

\* The pipeline reaches the bound with p = 90 on three similarities: two
\* breakpoints, three chunks.
C26_Witness ==
    /\ op = "semantic_chunking" /\ status = "ok"
    /\ method = "percentile" /\ threshold = 90
    /\ Len(similarities) = 3
    /\ Len(breakpoints) = 2
    /\ Len(semantic_chunks) = 3

\* ===================================================================
\* Round trips
\* ===================================================================
\* The first n - overlap characters of each chunk (the whole chunk when it
\* is shorter), one after the other.
ChunkHeads ==
    Flatten([j \in 1..Len(chunks) |->
               SubSeq(chunks[j], 1, Min(n - overlap, Len(chunks[j])))])

\* C28: for every text and every n, overlap with 0 <= overlap < n, the text
\* is recovered from the chunks of chunk_text: the first (n - overlap)
\* characters of each chunk, concatenated in order, give back the text, so
\* every character position of the text lies in at least one chunk, and
\* every chunk is non-empty.
C28_TextRecovered ==
    (op = "chunk_text" /\ 0 <= overlap /\ overlap < n) =>
        /\ status = "ok"
        /\ ChunkHeads = text
        /\ \A j \in 1..Len(chunks) : chunks[j] # <<>>
        /\ \A pos \in 1..Len(text) :
             \E c \in 0..(Len(chunks) - 1) :
                LET first == c * (n - overlap) IN
                /\ first < pos /\ pos <= first + Len(chunks[c + 1])
                /\ chunks[c + 1][pos - first] = text[pos]

\* Overlapping chunks of a text of two different characters, the last chunk
\* shorter than the stride.
C28_Witness ==
    /\ op = "chunk_text" /\ status = "ok"
    /\ n = 3 /\ overlap = 1
    /\ Len(text) = 5 /\ text[1] # text[2]
    /\ Len(chunks) = 3
    /\ Len(chunks[3]) = 1
    /\ ChunkHeads = text

\* The strings of parts with a single space between neighbours.
RECURSIVE JoinWithSpace(_)
JoinWithSpace(parts) ==
    IF parts = <<>> THEN <<>>
    ELSE IF Len(parts) = 1 THEN parts[1]
    ELSE parts[1] \o <<" ">> \o JoinWithSpace(Tail(parts))

\* The chunks give back the text t: joined by single spaces they are t,
\* every chunk but the last ends with ".", and the last chunk is its
\* sentences joined by ". " with nothing added.
GivesBack(t) ==
    /\ JoinWithSpace(semantic_chunks) = t
    /\ \A j \in 1..(Len(semantic_chunks) - 1) :
         /\ semantic_chunks[j] # <<>>
         /\ semantic_chunks[j][Len(semantic_chunks[j])] = "."
    /\ semantic_chunks[Len(semantic_chunks)]
         = Join(Pick(sentences, chunk_units[Len(chunk_units)]))

\* C29: for every sentence list obtained by splitting a text on ". " and
\* every strictly increasing breakpoint list with indices in [0, N - 2],
\* joining the chunks of split_into_chunks with a single space gives back
\* the original text: every chunk except the last ends with the "." that
\* the split removed, and the last chunk gets no added ".".  In a call of
\* split_into_chunks the text is the one whose split is the sentence list;
\* in the pipeline it is the text the sentences were split from.
C29_SplitJoinRoundTrip ==
    /\ (/\ op = "split_into_chunks" /\ NumUnits >= 1
        /\ BreaksWithin(NumUnits - 2)
        /\ split(Join(sentences)) = sentences) =>
           GivesBack(Join(sentences))
    /\ (op = "semantic_chunking" /\ status = "ok") =>
           /\ sentences = split(text)
           /\ GivesBack(text)

\* A text of four sentences, one of them empty and one ending in ".", cut
\* into three chunks by the pipeline.
C29_Witness ==
    /\ op = "semantic_chunking" /\ status = "ok"
    /\ NumUnits = 4 /\ NumBreaks = 2
    /\ \E i, j \in 1..NumUnits : sentences[i] = <<>> /\ sentences[j] = <<"a", ".">>
    /\ JoinWithSpace(semantic_chunks) = text

\* ===================================================================
\* Independence of the two criteria
\* ===================================================================
\* The score a reply gets on its own: the number it parses to, 0 when it
\* does not parse.
OwnScore(reply) ==
    IF float(strip(reply)).raised = "ValueError"
    THEN 0
    ELSE float(strip(reply)).value

\* C30: in evaluate_response the two criteria are scored independently:
\* both judge calls (faithfulness first, then relevancy) are issued before
\* any reply is parsed, and a parse failure of one reply sets only that
\* criterion's score to 0.0 while the other criterion's score is still the
\* number parsed from its own reply.
C30_IndependentCriteria ==
    (op = "evaluate_response" /\ BothRepliesArrived) =>
        /\ status = "ok"
        /\ Len(events) >= 4
        /\ events[1] = <<"call", "faithfulness">>
        /\ events[2] = <<"call", "relevancy">>
        /\ \A j \in 3..Len(events) : events[j][1] \in {"parse", "warning"}
        /\ scores = <<OwnScore(faithfulness_reply), OwnScore(relevancy_reply)>>
        /\ \A other \in Replies :
             /\ evaluate_response(faithfulness_reply, other).scores[1] = scores[1]
             /\ evaluate_response(other, relevancy_reply).scores[2] = scores[2]

\* The relevancy reply does not parse and the faithfulness reply is "1.0":
\* the faithfulness score stays 1.0.
C30_Witness ==
    /\ op = "evaluate_response" /\ status = "ok"
    /\ faithfulness_reply = <<"1", ".", "0">>
    /\ relevancy_reply \in NonNumericReplies
    /\ scores = <<10, 0>>
    /\ Logged("warning", "relevancy")
    /\ ~Logged("warning", "faithfulness")

====
